---------------------------- MODULE Spec2Model ----------------------------
(***************************************************************************)
(* cartman/text.py: the text processing functions of the cartman Trac      *)
(* client.  Every function of the module is pure; a state of the model is  *)
(* one call: the function called, its arguments, and, once the call has    *)
(* run, its outcome (a returned value, None, or a raised exception).       *)
(*                                                                         *)
(* A Python string is a sequence of one-character strings.  Regular        *)
(* expressions are sequences of items run by a backtracking matcher with   *)
(* the leftmost, greedy semantics of Python's re module.                   *)
(***************************************************************************)
EXTENDS Integers, Sequences, FiniteSets, TLC

VARIABLES fn, value, options, raw_value, raw_html, pc, ret

vars == <<fn, value, options, raw_value, raw_html, pc, ret>>

(***************************************************************************)
(* Characters.                                                             *)
(***************************************************************************)
LowerLetters ==
    <<"a","b","c","d","e","f","g","h","i","j","k","l","m","n","o","p","q","r",
      "s","t","u","v","w","x","y","z">>

UpperLetters ==
    <<"A","B","C","D","E","F","G","H","I","J","K","L","M","N","O","P","Q","R",
      "S","T","U","V","W","X","Y","Z">>

DigitChars ==
    <<"0","1","2","3","4","5","6","7","8","9">>

Range(seq) == {seq[i] : i \in 1..Len(seq)}

IndexOf(seq, x) == CHOOSE i \in 1..Len(seq) : seq[i] = x

\* \w of the re module: letters, digits and the underscore.
WordChars == Range(LowerLetters) \cup Range(UpperLetters) \cup Range(DigitChars) \cup {"_"}

\* \s of the re module.
SpaceChars == {" ", "\n", "\t", "\r"}

\* str.lower() on one character.
LowerChar(ch) ==
    IF ch \in Range(UpperLetters) THEN LowerLetters[IndexOf(UpperLetters, ch)] ELSE ch

\* str.lower()
lower(s) == [i \in 1..Len(s) |-> LowerChar(s[i])]

(***************************************************************************)
(* Outcomes of a call.                                                     *)
(***************************************************************************)
NotCalled == [kind |-> "pending", val |-> << >>, exc |-> ""]

Return(v) == [kind |-> "return", val |-> v, exc |-> ""]

ReturnNone == [kind |-> "none", val |-> << >>, exc |-> ""]

Raise(e) == [kind |-> "raise", val |-> << >>, exc |-> e]

(***************************************************************************)
(* The re module: patterns, and the backtracking matcher.                  *)
(***************************************************************************)
\* A run of literal characters.
Lits(s) == <<[k |-> "lits", c |-> s]>>

\* cls+ and cls* (greedy), for a character class cls.
Plus(cls) == <<[k |-> "plus", c |-> cls]>>

Star(cls) == <<[k |-> "star", c |-> cls]>>

GroupOpen == <<[k |-> "open", c |-> ""]>>

GroupClose == <<[k |-> "close", c |-> ""]>>

\* \b
WordBoundary == <<[k |-> "wb", c |-> ""]>>

\* The character classes the patterns of text.py use.
InClass(cls, ch) ==
    CASE cls = "notquote" -> ch # "\""      \* [^"]
      [] cls = "notlt"    -> ch # "<"       \* [^<]
      [] cls = "notsemi"  -> ch # ";"       \* [^;]
      [] cls = "word"     -> ch \in WordChars     \* \w
      [] cls = "digit"    -> ch \in Range(DigitChars)  \* \d
      [] cls = "space"    -> ch \in SpaceChars    \* [\s\n]
      [] cls = "dot"      -> ch # "\n"      \* . without DOTALL

NoMatch == [ok |-> FALSE, start |-> 0, end |-> 0, gs |-> 0, ge |-> 0]

IsWordAt(s, p) == p >= 1 /\ p <= Len(s) /\ s[p] \in WordChars

\* \b matches before position pos when exactly one side is a word character.
AtWordBoundary(s, pos) == IsWordAt(s, pos - 1) # IsWordAt(s, pos)

StartsWithAt(s, p, lit) ==
    /\ p >= 1
    /\ p + Len(lit) - 1 <= Len(s)
    /\ \A i \in 1..Len(lit) : s[p + i - 1] = lit[i]

\* The least element of a set of positions that is not empty.
First(P) == CHOOSE p \in P : \A q \in P : p <= q

Last(P) == CHOOSE p \in P : \A q \in P : q <= p

\* The length of the longest run of characters of cls that starts at pos.
RunLen(s, pos, cls) ==
    First({e \in pos..(Len(s) + 1) : e = Len(s) + 1 \/ ~InClass(cls, s[e])}) - pos

RECURSIVE MatchFrom(_, _, _, _, _, _, _)
\* Items i.. of pat against s from position pos, for a match that began at
\* start; gs and ge are the bounds of group 1 so far.  The result holds the
\* end of the match (exclusive).  A repeat is greedy: it takes the longest
\* run after which the rest of the pattern matches.
MatchFrom(pat, i, s, start, pos, gs, ge) ==
    IF i > Len(pat)
    THEN [ok |-> TRUE, start |-> start, end |-> pos, gs |-> gs, ge |-> ge]
    ELSE LET it == pat[i] IN
         CASE it.k = "lits" ->
                IF StartsWithAt(s, pos, it.c)
                THEN MatchFrom(pat, i + 1, s, start, pos + Len(it.c), gs, ge)
                ELSE NoMatch
           [] it.k = "open"  -> MatchFrom(pat, i + 1, s, start, pos, pos, ge)
           [] it.k = "close" -> MatchFrom(pat, i + 1, s, start, pos, gs, pos)
           [] it.k = "wb" ->
                IF AtWordBoundary(s, pos)
                THEN MatchFrom(pat, i + 1, s, start, pos, gs, ge)
                ELSE NoMatch
           [] it.k \in {"plus", "star"} ->
                LET min == IF it.k = "plus" THEN 1 ELSE 0
                    fits == {n \in min..RunLen(s, pos, it.c) :
                               MatchFrom(pat, i + 1, s, start, pos + n, gs, ge).ok}
                IN IF fits = {} THEN NoMatch
                   ELSE MatchFrom(pat, i + 1, s, start, pos + Last(fits), gs, ge)

\* re.match(pat, s): a match that starts at the first character.
re_match(pat, s) == MatchFrom(pat, 1, s, 1, 1, 0, 0)

\* The leftmost match of pat in s that starts at position from or later.
SearchFrom(pat, s, from) ==
    LET starts == {p \in from..(Len(s) + 1) : MatchFrom(pat, 1, s, p, p, 0, 0).ok}
    IN IF starts = {} THEN NoMatch
       ELSE MatchFrom(pat, 1, s, First(starts), First(starts), 0, 0)

\* re.search(pat, s)
re_search(pat, s) == SearchFrom(pat, s, 1)

\* m.group(1)
group1(s, m) == SubSeq(s, m.gs, m.ge - 1)

RECURSIVE FindAllFrom(_, _, _)
\* re.findall(pat, s) for a pattern with one group: group 1 of every
\* non-overlapping match, left to right.
FindAllFrom(pat, s, from) ==
    LET m == SearchFrom(pat, s, from)
    IN IF ~m.ok THEN << >>
       ELSE <<group1(s, m)>>
              \o FindAllFrom(pat, s, IF m.end = m.start THEN m.end + 1 ELSE m.end)

re_findall(pat, s) == FindAllFrom(pat, s, 1)

(***************************************************************************)
(* extract_timestamp                                                       *)
(***************************************************************************)
\* A slip in the pattern: [^"]* for [^"]+, an empty value matches.
re_timestamp_with_star ==
    Lits(<<"n","a","m","e","=","\"","t","s","\""," ","v","a","l","u","e","=",
           "\"">>) \o GroupOpen \o Star("notquote") \o GroupClose

\* r"""name="ts" value="([^"]+)"""
re_timestamp ==
    Lits(<<"n","a","m","e","=","\"","t","s","\""," ","v","a","l","u","e","=",
           "\"">>) \o GroupOpen \o Plus("notquote") \o GroupClose

extract_timestamp(html) ==
    LET m == re_search(re_timestamp, html)
    IN IF m.ok THEN Return(group1(html, m)) ELSE Raise("FatalError")

(***************************************************************************)
(* extract_statuses                                                        *)
(***************************************************************************)
\* r'<input type="radio" [^<]+ name="action" value="([^"]+)'
re_statuses ==
    Lits(<<"<","i","n","p","u","t"," ","t","y","p","e","=","\"","r","a","d",
           "i","o","\""," ">>) \o Plus("notlt")
      \o Lits(<<" ","n","a","m","e","=","\"","a","c","t","i","o","n","\""," ",
                "v","a","l","u","e","=","\"">>)
      \o GroupOpen \o Plus("notquote") \o GroupClose

\* A slip: re.search for re.findall, the first input only.
extract_statuses_first_only(html) ==
    LET m == re_search(re_statuses, html)
    IN IF m.ok THEN Return(<<group1(html, m)>>) ELSE Return(<< >>)

extract_statuses(html) == Return(re_findall(re_statuses, html))

(***************************************************************************)
(* extract_status_from_ticket_page                                         *)
(***************************************************************************)
\* r'leave</label>[\s\n]*as (\w+)[\s\n]*<'
re_ticket_status ==
    Lits(<<"l","e","a","v","e","<","/","l","a","b","e","l",">">>) \o Star("space") \o Lits(<<"a",
                                                                                             "s",
                                                                                             " ">>)
      \o GroupOpen \o Plus("word") \o GroupClose \o Star("space") \o Lits(<<"<">>)

\* A slip: None for the missing phrase, no FatalError.
extract_status_or_none(html) ==
    LET m == re_search(re_ticket_status, html)
    IN IF m.ok THEN Return(group1(html, m)) ELSE ReturnNone

extract_status_from_ticket_page(html) ==
    LET m == re_search(re_ticket_status, html)
    IN IF m.ok THEN Return(group1(html, m)) ELSE Raise("FatalError")

(***************************************************************************)
(* int() on a string of decimal digits.                                    *)
(***************************************************************************)
DigitValue(ch) == IndexOf(DigitChars, ch) - 1

RECURSIVE DigitsToInt(_)
DigitsToInt(ds) ==
    IF ds = << >> THEN 0
    ELSE 10 * DigitsToInt(SubSeq(ds, 1, Len(ds) - 1)) + DigitValue(ds[Len(ds)])

(***************************************************************************)
(* extract_trac_version                                                    *)
(***************************************************************************)
\* r"Trac (\d+\.\d+\.\d+)"
re_version ==
    Lits(<<"T","r","a","c"," ">>) \o GroupOpen \o Plus("digit") \o Lits(<<".">>) \o Plus("digit")
      \o Lits(<<".">>) \o Plus("digit") \o GroupClose

RECURSIVE split(_, _)
\* str.split(sep) for a one-character separator.
split(s, sep) ==
    IF \E i \in 1..Len(s) : s[i] = sep
    THEN LET i == CHOOSE j \in 1..Len(s) :
                    s[j] = sep /\ \A h \in 1..(j - 1) : s[h] # sep
         IN <<SubSeq(s, 1, i - 1)>> \o split(SubSeq(s, i + 1, Len(s)), sep)
    ELSE <<s>>

\* A slip: results[-1] for results[0], the last version of the page.
extract_trac_version_of_last(html) ==
    LET results == re_findall(re_version, html)
    IN IF results = << >> THEN Return(<< >>)
       ELSE LET toks == split(results[Len(results)], ".")
            IN Return([i \in 1..Len(toks) |-> DigitsToInt(toks[i])])

extract_trac_version(html) ==
    LET results == re_findall(re_version, html)
    IN IF results = << >> THEN Return(<< >>)
       ELSE LET toks == split(results[1], ".")
            IN Return([i \in 1..Len(toks) |-> DigitsToInt(toks[i])])

(***************************************************************************)
(* json.loads, for the JSON texts the model feeds it: objects, arrays,     *)
(* strings without escape sequences, integers, true, false and null.       *)
(* A parsed value carries its type; an object is a function from its keys; *)
(* of two members with one key the later wins, as in a dict.               *)
(***************************************************************************)
JObject(f) == [t |-> "object", v |-> f]

JArray(seq) == [t |-> "array", v |-> seq]

JString(s) == [t |-> "string", v |-> s]

JNumber(n) == [t |-> "number", v |-> n]

JLiteral(name) == [t |-> "literal", v |-> name]

JsonWhitespace == {" ", "\t", "\n", "\r"}

JsonFail == [ok |-> FALSE, val |-> << >>, end |-> 0]

JsonOk(v, end) == [ok |-> TRUE, val |-> v, end |-> end]

RECURSIVE SkipWhitespace(_, _)
SkipWhitespace(s, p) ==
    IF p <= Len(s) /\ s[p] \in JsonWhitespace THEN SkipWhitespace(s, p + 1) ELSE p

RECURSIVE JsonStringEnd(_, _)
\* The position of the quote that closes the string whose first character is
\* at p; 0 when the string is unterminated or holds a control character.
JsonStringEnd(s, p) ==
    IF p > Len(s) \/ s[p] \in {"\n", "\t", "\r", "\\"} THEN 0
    ELSE IF s[p] = "\"" THEN p
    ELSE JsonStringEnd(s, p + 1)

JsonString(s, p) ==
    LET q == JsonStringEnd(s, p)
    IN IF q = 0 THEN JsonFail ELSE JsonOk(SubSeq(s, p, q - 1), q + 1)

\* -?(0|[1-9]\d*)
JsonNumber(s, p) ==
    LET neg == s[p] = "-"
        d == IF neg THEN p + 1 ELSE p
    IN IF d > Len(s) \/ s[d] \notin Range(DigitChars) THEN JsonFail
       ELSE LET n == IF s[d] = "0" THEN 1 ELSE RunLen(s, d, "digit")
                v == DigitsToInt(SubSeq(s, d, d + n - 1))
            IN JsonOk(JNumber(IF neg THEN 0 - v ELSE v), d + n)

RECURSIVE JsonValue(_, _)
RECURSIVE JsonMembers(_, _, _)
RECURSIVE JsonElements(_, _, _)
JsonValue(s, p) ==
    IF p > Len(s) THEN JsonFail
    ELSE CASE s[p] = "\"" ->
                LET r == JsonString(s, p + 1)
                IN IF r.ok THEN JsonOk(JString(r.val), r.end) ELSE JsonFail
           [] s[p] = "{" ->
                LET q == SkipWhitespace(s, p + 1)
                IN IF q <= Len(s) /\ s[q] = "}" THEN JsonOk(JObject(<< >>), q + 1)
                   ELSE JsonMembers(s, q, << >>)
           [] s[p] = "[" ->
                LET q == SkipWhitespace(s, p + 1)
                IN IF q <= Len(s) /\ s[q] = "]" THEN JsonOk(JArray(<< >>), q + 1)
                   ELSE JsonElements(s, q, << >>)
           [] s[p] = "-" \/ s[p] \in Range(DigitChars) -> JsonNumber(s, p)
           [] StartsWithAt(s, p, <<"t","r","u","e">>) -> JsonOk(JLiteral("true"), p + 4)
           [] StartsWithAt(s, p, <<"f","a","l","s","e">>) -> JsonOk(JLiteral("false"), p + 5)
           [] StartsWithAt(s, p, <<"n","u","l","l">>) -> JsonOk(JLiteral("null"), p + 4)
           [] OTHER -> JsonFail

\* The members of an object from the key at p on; acc holds those read so far.
JsonMembers(s, p, acc) ==
    IF p > Len(s) \/ s[p] # "\"" THEN JsonFail
    ELSE LET key == JsonString(s, p + 1)
             colon == SkipWhitespace(s, key.end)
         IN IF ~key.ok \/ colon > Len(s) \/ s[colon] # ":" THEN JsonFail
            ELSE LET val == JsonValue(s, SkipWhitespace(s, colon + 1))
                     e == SkipWhitespace(s, val.end)
                     acc2 == (key.val :> val.val) @@ acc
                 IN IF ~val.ok \/ e > Len(s) THEN JsonFail
                    ELSE IF s[e] = "}" THEN JsonOk(JObject(acc2), e + 1)
                    ELSE IF s[e] = "," THEN JsonMembers(s, SkipWhitespace(s, e + 1), acc2)
                    ELSE JsonFail

\* The elements of an array from the value at p on.
JsonElements(s, p, acc) ==
    LET val == JsonValue(s, p)
        e == SkipWhitespace(s, val.end)
    IN IF ~val.ok \/ e > Len(s) THEN JsonFail
       ELSE IF s[e] = "]" THEN JsonOk(JArray(Append(acc, val.val)), e + 1)
       ELSE IF s[e] = "," THEN JsonElements(s, SkipWhitespace(s, e + 1), Append(acc, val.val))
       ELSE JsonFail

\* json.loads(s): one value, with nothing but whitespace around it.
json_loads(s) ==
    LET r == JsonValue(s, SkipWhitespace(s, 1))
    IN IF ~r.ok THEN Raise("ValueError")
       ELSE IF SkipWhitespace(s, r.end) # Len(s) + 1 THEN Raise("ValueError")
       ELSE Return(r.val)

(***************************************************************************)
(* extract_properties                                                      *)
(***************************************************************************)
\* r"var properties=([^;]+)"
re_prop ==
    Lits(<<"v","a","r"," ","p","r","o","p","e","r","t","i","e","s","=">>) \o GroupOpen \o Plus("notsemi") \o GroupClose

extract_properties(html) ==
    LET prop_tokens == re_findall(re_prop, html)
    IN IF Len(prop_tokens) < 1 THEN Return(JObject(<< >>))
       ELSE json_loads(prop_tokens[1])

(***************************************************************************)
(* validate_id.  A raw value carries its Python type: an int (n), a str    *)
(* (its characters, s), None or a list.                                    *)
(***************************************************************************)
PyInt(n) == [t |-> "int", n |-> n, s |-> << >>]

PyStr(s) == [t |-> "str", n |-> 0, s |-> s]

PyNone == [t |-> "NoneType", n |-> 0, s |-> << >>]

PyList == [t |-> "list", n |-> 0, s |-> << >>]

RECURSIVE lstrip(_)
lstrip(s) == IF s # << >> /\ Head(s) \in SpaceChars THEN lstrip(Tail(s)) ELSE s

RECURSIVE rstrip(_)
rstrip(s) ==
    IF s # << >> /\ s[Len(s)] \in SpaceChars THEN rstrip(SubSeq(s, 1, Len(s) - 1)) ELSE s

\* int(x): an int as it is; a str stripped of surrounding whitespace, with
\* an optional sign and at least one digit; ValueError for another str,
\* TypeError for None and for a list.
py_int(x) ==
    CASE x.t = "int" -> Return(x.n)
      [] x.t = "str" ->
           LET s == rstrip(lstrip(x.s))
               signed == s # << >> /\ Head(s) \in {"+", "-"}
               ds == IF signed THEN Tail(s) ELSE s
           IN IF ds # << >> /\ \A i \in 1..Len(ds) : ds[i] \in Range(DigitChars)
              THEN Return(IF signed /\ Head(s) = "-" THEN 0 - DigitsToInt(ds)
                                                     ELSE DigitsToInt(ds))
              ELSE Raise("ValueError")
      [] OTHER -> Raise("TypeError")

\* A slip: except ValueError alone, the TypeError of int(None) escapes.
validate_id_except_value_error(raw) ==
    LET converted_id == py_int(raw)
    IN IF converted_id.kind = "raise" /\ converted_id.exc = "ValueError"
       THEN Raise("InvalidParameter")
       ELSE converted_id

validate_id(raw) ==
    LET converted_id == py_int(raw)
    IN IF converted_id.kind = "raise" /\ converted_id.exc \in {"ValueError", "TypeError"}
       THEN Raise("InvalidParameter")
       ELSE converted_id

(***************************************************************************)
(* difflib.SequenceMatcher(None, a, b) on strings shorter than 200         *)
(* characters (no junk, no popular characters).  Positions count from 1    *)
(* and a range lo..hi excludes hi.                                         *)
(***************************************************************************)
RECURSIVE ScanRow(_, _, _, _, _)
\* The inner loop of find_longest_match for the row of a[i]: every j in
\* increasing order, a strictly longer block replacing the best so far.
ScanRow(row, i, j, bhi, best) ==
    IF j >= bhi THEN best
    ELSE LET k == row[j]
         IN ScanRow(row, i, j + 1, bhi,
                    IF k > best[3] THEN <<i - k + 1, j - k + 1, k>> ELSE best)

RECURSIVE ScanRows(_, _, _, _, _, _, _, _)
\* The outer loop: j2len[j] is the length of the longest block ending with
\* a[i - 1] and b[j].
ScanRows(a, b, i, ahi, blo, bhi, j2len, best) ==
    IF i >= ahi THEN best
    ELSE LET newj2len == [j \in blo..(bhi - 1) |->
                            IF b[j] = a[i]
                            THEN (IF j - 1 >= blo THEN j2len[j - 1] ELSE 0) + 1
                            ELSE 0]
         IN ScanRows(a, b, i + 1, ahi, blo, bhi, newj2len,
                     ScanRow(newj2len, i, blo, bhi, best))

\* <<i, j, k>>: the longest block a[i..i+k) = b[j..j+k) within the ranges,
\* the earliest in a, and of those the earliest in b.
find_longest_match(a, b, alo, ahi, blo, bhi) ==
    ScanRows(a, b, alo, ahi, blo, bhi, [j \in blo..(bhi - 1) |-> 0], <<alo, blo, 0>>)

RECURSIVE MatchedChars(_, _, _, _, _, _)
\* The sum of the sizes of get_matching_blocks(): the longest block, then
\* the blocks to its left and to its right.
MatchedChars(a, b, alo, ahi, blo, bhi) ==
    LET m == find_longest_match(a, b, alo, ahi, blo, bhi)
        i == m[1]
        j == m[2]
        k == m[3]
    IN IF k = 0 THEN 0
       ELSE k + (IF alo < i /\ blo < j THEN MatchedChars(a, b, alo, i, blo, j) ELSE 0)
              + (IF i + k < ahi /\ j + k < bhi
                 THEN MatchedChars(a, b, i + k, ahi, j + k, bhi) ELSE 0)

\* _calculate_ratio: 2.0 * matches / length as the fraction <<num, den>>.
calculate_ratio(matches, length) ==
    IF length # 0 THEN <<2 * matches, length>> ELSE <<1, 1>>

ratio(a, b) ==
    calculate_ratio(MatchedChars(a, b, 1, Len(a) + 1, 1, Len(b) + 1), Len(a) + Len(b))

Count(s, ch) == Cardinality({i \in 1..Len(s) : s[i] = ch})

Min(x, y) == IF x <= y THEN x ELSE y

RECURSIVE SumOver(_, _, _)
SumOver(S, a, b) ==
    IF S = {} THEN 0
    ELSE LET ch == CHOOSE c \in S : TRUE
         IN Min(Count(a, ch), Count(b, ch)) + SumOver(S \ {ch}, a, b)

\* The characters a and b share, counted with their multiplicity.
quick_ratio(a, b) == calculate_ratio(SumOver(Range(a), a, b), Len(a) + Len(b))

real_quick_ratio(a, b) == calculate_ratio(Min(Len(a), Len(b)), Len(a) + Len(b))

\* The default cutoff of get_close_matches, 0.6, as CutoffNum / CutoffDen.
CutoffNum == 6

CutoffDen == 10

\* The default n of get_close_matches.
CloseMatchesN == 3

\* r >= cutoff, for a fraction r.
AtLeastCutoff(r) == r[1] * CutoffDen >= CutoffNum * r[2]

\* Characters in code point order, for the comparison of strings.
CodePointOrder ==
    <<" ", "(">> \o DigitChars \o UpperLetters \o <<"_">> \o LowerLetters

Ord(ch) == IndexOf(CodePointOrder, ch)

RECURSIVE StrLess(_, _)
\* x < y for strings.
StrLess(x, y) ==
    IF y = << >> THEN FALSE
    ELSE IF x = << >> THEN TRUE
    ELSE IF Head(x) = Head(y) THEN StrLess(Tail(x), Tail(y))
    ELSE Ord(Head(x)) < Ord(Head(y))

\* (score, x) < (score', x') for the pairs get_close_matches ranks.
ScoredLess(p, q) ==
    LET l == p[1][1] * q[1][2]
        r == q[1][1] * p[1][2]
    IN l < r \/ (l = r /\ StrLess(p[2], q[2]))

RECURSIVE nlargest(_, _)
\* heapq.nlargest(n, result): the n largest pairs, the largest first.
nlargest(n, result) ==
    IF n = 0 \/ result = << >> THEN << >>
    ELSE LET top == CHOOSE i \in 1..Len(result) :
                      \A h \in 1..Len(result) : h = i \/ ScoredLess(result[h], result[i])
         IN <<result[top]>>
              \o nlargest(n - 1, SubSeq(result, 1, top - 1)
                                   \o SubSeq(result, top + 1, Len(result)))

RECURSIVE ScoreAll(_, _)
\* The loop of get_close_matches: (ratio, x) of every possibility x that
\* passes the three tests.  The matcher's first sequence is x, its second word.
ScoreAll(word, possibilities) ==
    IF possibilities = << >> THEN << >>
    ELSE LET x == Head(possibilities)
             rest == ScoreAll(word, Tail(possibilities))
         IN IF /\ AtLeastCutoff(real_quick_ratio(x, word))
               /\ AtLeastCutoff(quick_ratio(x, word))
               /\ AtLeastCutoff(ratio(x, word))
            THEN <<<<ratio(x, word), x>>>> \o rest
            ELSE rest

\* difflib.get_close_matches(word, possibilities), n = 3 and cutoff = 0.6.
get_close_matches(word, possibilities) ==
    LET best == nlargest(CloseMatchesN, ScoreAll(word, possibilities))
    IN [i \in 1..Len(best) |-> best[i][2]]

(***************************************************************************)
(* fuzzy_find                                                              *)
(***************************************************************************)
\* A dict as the sequence of its <<key, value>> items in insertion order.
DictSet(d, key, val) ==
    IF \E i \in 1..Len(d) : d[i][1] = key
    THEN [i \in 1..Len(d) |-> IF d[i][1] = key THEN <<key, val>> ELSE d[i]]
    ELSE Append(d, <<key, val>>)

DictGet(d, key) == d[CHOOSE i \in 1..Len(d) : d[i][1] = key][2]

DictKeys(d) == [i \in 1..Len(d) |-> d[i][1]]

RECURSIVE DictAsSpelled(_, _)
\* A slip: {opt: opt for opt in options}, the keys keep their case.
DictAsSpelled(opts, d) ==
    IF opts = << >> THEN d
    ELSE DictAsSpelled(Tail(opts), DictSet(d, Head(opts), Head(opts)))

RECURSIVE LowerDict(_, _)
\* {opt.lower(): opt for opt in options}
LowerDict(opts, d) ==
    IF opts = << >> THEN d
    ELSE LowerDict(Tail(opts), DictSet(d, lower(Head(opts)), Head(opts)))

\* Whether r".*\b%s\b.*" % v compiles.  v holds letters, digits, spaces and
\* "(": an opening parenthesis that nothing closes is an error of re.
PatternCompiles(v) == \A i \in 1..Len(v) : v[i] # "("

\* A slip: r".*%s.*", the value anywhere in the option.
word_pattern_without_boundaries(v) == Star("dot") \o Lits(v) \o Star("dot")

\* r".*\b%s\b.*" % v, for a v that compiles: its characters stand for themselves.
word_pattern(v) ==
    Star("dot") \o WordBoundary \o Lits(v) \o WordBoundary \o Star("dot")

RECURSIVE WordMatches(_, _)
\* The loop over options.items(): the keys the pattern matches.
WordMatches(v, keys) ==
    IF keys = << >> THEN << >>
    ELSE IF re_match(word_pattern(v), Head(keys)).ok
         THEN <<Head(keys)>> \o WordMatches(v, Tail(keys))
         ELSE WordMatches(v, Tail(keys))

fuzzy_find(val, opts) ==
    LET v == lower(val)
        d == LowerDict(opts, << >>)
        keys == DictKeys(d)
        close == get_close_matches(v, keys)
    IN IF \E i \in 1..Len(keys) : keys[i] = v THEN Return(DictGet(d, v))
       ELSE IF close = << >> /\ keys # << >> /\ ~PatternCompiles(v) THEN Raise("re.error")
       ELSE LET matches == IF close = << >> THEN WordMatches(v, keys) ELSE close
            IN IF Len(matches) = 1 THEN Return(DictGet(d, matches[1]))
               ELSE ReturnNone

(***************************************************************************)
(* The calls the model makes.                                              *)
(***************************************************************************)
\* The longest list of options, and the most fragments in a page.
MaxOptions == 3

MaxFragments == 3

\* The longest identifier string (beside the named ones), and the largest
\* magnitude of an int identifier.
MaxIdLen == 4

MaxIdValue == 50

SeqsUpTo(S, n) == UNION {[1..h -> S] : h \in 0..n}

RECURSIVE Flatten(_)
Flatten(ss) == IF ss = << >> THEN << >> ELSE Head(ss) \o Flatten(Tail(ss))

Pages(fragments) == {Flatten(fs) : fs \in SeqsUpTo(fragments, MaxFragments)}

\* What the user types.
Values ==
    { <<"c","l","o","s">>, <<"n","e","w">>, <<"O","p","e","n">>, <<"o","p",
                                                                   "e","n">>, <<"c",
                                                                                "l",
                                                                                "o",
                                                                                "s",
                                                                                "e">>, <<"N",
                                                                                         "E",
                                                                                         "W">>, <<"b",
                                                                                                  "u",
                                                                                                  "g">>,
      <<"(">>, <<"n","e","w","(">>, << >> }

\* What the system knows.
OptionNames ==
    { <<"o","p","e","n">>, <<"O","P","E","N">>, <<"c","l","o","s","e">>, <<"c",
                                                                           "l",
                                                                           "o",
                                                                           "s",
                                                                           "e",
                                                                           "d">>, <<"r",
                                                                                    "e",
                                                                                    "n",
                                                                                    "e",
                                                                                    "w">>, <<"r",
                                                                                             "e",
                                                                                             "n",
                                                                                             "e",
                                                                                             "w",
                                                                                             "i",
                                                                                             "n",
                                                                                             "g">>,
      <<"n","e","w"," ","f","e","a","t","u","r","e">>, <<"N","e","w"," ","B",
                                                         "u","g">>, <<"C","L",
                                                                      "O","S",
                                                                      "E">> }

OptionLists == SeqsUpTo(OptionNames, MaxOptions)

IdChars == {"4", "2", "0", "-", "+", " ", "a"}

RawValues ==
    {PyInt(n) : n \in (0 - MaxIdValue)..MaxIdValue}
      \cup {PyStr(s) : s \in SeqsUpTo(IdChars, MaxIdLen)}
      \cup {PyStr(<<"a","b","c">>), PyStr(<<" ","-","0","4","2","\n">>), PyNone, PyList}

TimestampFragments ==
    { <<"<","i","n","p","u","t"," ","t","y","p","e","=","\"","h","i","d","d",
        "e","n","\""," ","n","a","m","e","=","\"","t","s","\""," ","v","a",
        "l","u","e","=","\"","1","6","9","3","3","2","2","1","\""," ","/",">">>,
      <<"<","i","n","p","u","t"," ","n","a","m","e","=","\"","t","s","\""," ",
        "v","a","l","u","e","=","\"","7","\"",">">>,
      <<"<","i","n","p","u","t"," ","t","y","p","e","=","\"","h","i","d","d",
        "e","n","\""," ","v","a","l","u","e","=","\"","5","\""," ","n","a",
        "m","e","=","\"","t","s","\""," ","/",">">>,
      <<"<","i","n","p","u","t"," ","t","y","p","e","=","\"","h","i","d","d",
        "e","n","\""," ","n","a","m","e","=","\"","t","s","\""," ","v","a",
        "l","u","e","=","\"","\""," ","/",">">>,
      <<"<","i","n","p","u","t"," ","t","y","p","e","=","\"","h","i","d","d",
        "e","n","\""," ","i","d","=","\"","t","s","\""," ","v","a","l","u",
        "e","=","\"","4","2","\""," ","/",">">>,
      <<"<","d","i","v",">","x","<","/","d","i","v",">","\n">> }

StatusesFragments ==
    { <<"<","i","n","p","u","t"," ","t","y","p","e","=","\"","r","a","d","i",
        "o","\""," ","i","d","=","\"","a","\""," ","n","a","m","e","=","\"",
        "a","c","t","i","o","n","\""," ","v","a","l","u","e","=","\"","l","e",
        "a","v","e","\""," ","/",">">>,
      <<"<","i","n","p","u","t"," ","t","y","p","e","=","\"","r","a","d","i",
        "o","\""," ","i","d","=","\"","b","\""," ","n","a","m","e","=","\"",
        "a","c","t","i","o","n","\""," ","v","a","l","u","e","=","\"","r","e",
        "s","o","l","v","e","\""," ","/",">","\n">>,
      <<"<","i","n","p","u","t"," ","t","y","p","e","=","\"","r","a","d","i",
        "o","\""," ","n","a","m","e","=","\"","a","c","t","i","o","n","\"",
        " ","v","a","l","u","e","=","\"","x","\"",">">>,
      <<"<","i","n","p","u","t"," ","n","a","m","e","=","\"","a","c","t","i",
        "o","n","\""," ","t","y","p","e","=","\"","r","a","d","i","o","\"",
        " ","v","a","l","u","e","=","\"","y","\"",">">>,
      <<"<","i","n","p","u","t"," ","t","y","p","e","=","\"","r","a","d","i",
        "o","\""," ","i","d","=","\"","c","\""," ","n","a","m","e","=","\"",
        "a","c","t","i","o","n","\""," ","v","a","l","u","e","=","\"","\"",">">>,
      <<"<","i","n","p","u","t"," ","t","y","p","e","=","\"","r","a","d","i",
        "o","\""," ","i","d","=","\"","d","\""," ","n","a","m","e","=","\"",
        "o","w","n","e","r","\""," ","v","a","l","u","e","=","\"","z","\"",">">>,
      <<"<","i","n","p","u","t"," ","t","y","p","e","=","\"","c","h","e","c",
        "k","b","o","x","\""," ","i","d","=","\"","e","\""," ","n","a","m",
        "e","=","\"","a","c","t","i","o","n","\""," ","v","a","l","u","e","=",
        "\"","q","\"",">">>,
      <<"<","p",">","t","e","x","t","<","/","p",">">> }

TicketStatusFragments ==
    { <<"<","l","a","b","e","l"," ","f","o","r","=","\"","a","\"",">","l","e",
        "a","v","e","<","/","l","a","b","e","l",">","\n"," "," ","a","s"," ",
        "n","e","w","\n","<","s","p","a","n">>,
      <<"l","e","a","v","e","<","/","l","a","b","e","l",">"," ","a","s"," ",
        "c","l","o","s","e","d","<">>,
      <<"l","e","a","v","e","<","/","l","a","b","e","l",">"," ","a","s"," ",
        "<">>,
      <<"l","e","a","v","e","<","/","l","a","b","e","l",">"," ","a","s"," ",
        "n","e","w">>,
      <<"l","e","a","v","e"," ","a","s"," ","n","e","w","<">>,
      <<"<","p",">"," ","a","s"," ","i","s","<","/","p",">">> }

PropertiesFragments ==
    { <<"v","a","r"," ","p","r","o","p","e","r","t","i","e","s","=","{","\"",
        "a","\"",":","1","}",";">>,
      <<"v","a","r"," ","p","r","o","p","e","r","t","i","e","s","=","{","\"",
        "a","\"",":","\"","x",";","y","\"","}",";">>,
      <<"v","a","r"," ","p","r","o","p","e","r","t","i","e","s","="," ","{",
        "\"","b","\"",":"," ","{","\"","c","\"",":"," ","[","1",","," ","2",
        "0","]","}",","," ","\"","b","\"",":"," ","n","u","l","l","}"," ",";",
        "\n">>,
      <<"v","a","r"," ","p","r","o","p","e","r","t","i","e","s","=","[","1",
        "]",";">>,
      <<"v","a","r"," ","p","r","o","p","e","r","t","i","e","s","=","7",";">>,
      <<"v","a","r"," ","p","r","o","p","e","r","t","i","e","s","=","{","\"",
        "a","\"",":","2","}">>,
      <<"v","a","r"," ","p","r","o","p","e","r","t","i","e","s","=","{","\"",
        "a","\"",":",";">>,
      <<"<","s","c","r","i","p","t",">","v","a","r"," ","x","=","1",";","<",
        "/","s","c","r","i","p","t",">">> }

VersionFragments ==
    { <<"P","o","w","e","r","e","d"," ","b","y"," ","T","r","a","c"," ","1",
        ".","2",".","3">>,
      <<"<","a"," ","h","r","e","f","=","\"","/","a","b","o","u","t","\"",">",
        "T","r","a","c"," ","0",".","1","2",".","5","<","/","a",">">>,
      <<" ","T","r","a","c"," ","1","0",".","4",".","x">>,
      <<"T","r","a","c"," ","1",".","2">>,
      <<".","7"," ">>,
      <<"n","o"," ","v","e","r","s","i","o","n"," ","h","e","r","e">> }

Extractors ==
    {"extract_timestamp", "extract_statuses", "extract_status_from_ticket_page",
     "extract_properties", "extract_trac_version"}

PagesFor(f) ==
    CASE f = "extract_timestamp" -> Pages(TimestampFragments)
      [] f = "extract_statuses" -> Pages(StatusesFragments)
      [] f = "extract_status_from_ticket_page" -> Pages(TicketStatusFragments)
      [] f = "extract_properties" -> Pages(PropertiesFragments)
      [] f = "extract_trac_version" -> Pages(VersionFragments)

(***************************************************************************)
(* The state machine: a call is chosen, then runs.                         *)
(***************************************************************************)
InitFuzzy ==
    /\ fn = "fuzzy_find"
    /\ value \in Values
    /\ options \in OptionLists
    /\ raw_value = PyNone
    /\ raw_html = << >>
    /\ pc = "call"
    /\ ret = NotCalled

InitId ==
    /\ fn = "validate_id"
    /\ value = << >>
    /\ options = << >>
    /\ raw_value \in RawValues
    /\ raw_html = << >>
    /\ pc = "call"
    /\ ret = NotCalled

InitExtract ==
    /\ fn \in Extractors
    /\ value = << >>
    /\ options = << >>
    /\ raw_value = PyNone
    /\ raw_html \in PagesFor(fn)
    /\ pc = "call"
    /\ ret = NotCalled

Finish(outcome) ==
    /\ ret' = outcome
    /\ pc' = "done"
    /\ UNCHANGED <<fn, value, options, raw_value, raw_html>>

CallFuzzyFind ==
    /\ pc = "call" /\ fn = "fuzzy_find"
    /\ Finish(fuzzy_find(value, options))

CallValidateId ==
    /\ pc = "call" /\ fn = "validate_id"
    /\ Finish(validate_id(raw_value))

CallExtractTimestamp ==
    /\ pc = "call" /\ fn = "extract_timestamp"
    /\ Finish(extract_timestamp(raw_html))

CallExtractStatuses ==
    /\ pc = "call" /\ fn = "extract_statuses"
    /\ Finish(extract_statuses(raw_html))

CallExtractStatusFromTicketPage ==
    /\ pc = "call" /\ fn = "extract_status_from_ticket_page"
    /\ Finish(extract_status_from_ticket_page(raw_html))

CallExtractProperties ==
    /\ pc = "call" /\ fn = "extract_properties"
    /\ Finish(extract_properties(raw_html))

CallExtractTracVersion ==
    /\ pc = "call" /\ fn = "extract_trac_version"
    /\ Finish(extract_trac_version(raw_html))

NextFuzzy == CallFuzzyFind

NextId == CallValidateId

NextExtract ==
    \/ CallExtractTimestamp
    \/ CallExtractStatuses
    \/ CallExtractStatusFromTicketPage
    \/ CallExtractProperties
    \/ CallExtractTracVersion

SpecFuzzy == InitFuzzy /\ [][NextFuzzy]_vars

SpecId == InitId /\ [][NextId]_vars

SpecExtract == InitExtract /\ [][NextExtract]_vars

(***************************************************************************)
(* What the claims about fuzzy_find speak of.                              *)
(***************************************************************************)
Called(f) == pc = "done" /\ fn = f

\* The options in lowercase, the keys of the matcher.
LowerOptions == {lower(options[i]) : i \in 1..Len(options)}

\* Some option equals the value, case aside.
ExactMatch == lower(value) \in LowerOptions

\* The near-misses of the value: the options as close as the cutoff asks.
NearMisses == {k \in LowerOptions : AtLeastCutoff(ratio(k, lower(value)))}

\* w stands in k as a whole word: between two word boundaries.
ContainsWord(k, w) ==
    \E p \in 1..(Len(k) + 1) :
        /\ StartsWithAt(k, p, w)
        /\ AtWordBoundary(k, p)
        /\ AtWordBoundary(k, p + Len(w))

WholeWordMatches == {k \in LowerOptions : ContainsWord(k, lower(value))}

\* The candidates that survive: the near-misses, or without any the whole-word matches.
Survivors == IF NearMisses # {} THEN NearMisses ELSE WholeWordMatches

\* The call returned an option of the list, as the list spells it, whose
\* lowercase form is in K.
ReturnedOneOf(K) ==
    /\ ret.kind = "return"
    /\ \E i \in 1..Len(options) : options[i] = ret.val /\ lower(options[i]) \in K

\* C1: after the exact-match check fuzzy_find returns the canonical option of
\* the one surviving candidate (a near-miss, or a whole-word match when
\* there is no near-miss) and None when no candidate or several survive; in
\* particular fuzzy_find("clos", ["close", "closed"]) is None.
C1_TieBreakPolicy ==
    Called("fuzzy_find") /\ ~ExactMatch =>
        /\ Cardinality(Survivors) = 1 => ReturnedOneOf(Survivors)
        /\ Cardinality(Survivors) # 1 => ret = ReturnNone
        /\ (value = <<"c","l","o","s">> /\ options = <<<<"c","l","o","s","e">>, <<"c",
                                                                                  "l",
                                                                                  "o",
                                                                                  "s",
                                                                                  "e",
                                                                                  "d">>>>) => ret = ReturnNone

\* The policy of C1 on the calls whose word pattern compiles.
TieBreakPolicyWhenPatternCompiles ==
    Called("fuzzy_find") /\ ~ExactMatch /\ PatternCompiles(lower(value)) =>
        /\ Cardinality(Survivors) = 1 => ReturnedOneOf(Survivors)
        /\ Cardinality(Survivors) # 1 => ret = ReturnNone

\* The other calls of C1: without an exact match or a near-miss, a value that
\* holds "(" makes re.match raise as soon as there is an option to try.
PatternErrorPropagates ==
    Called("fuzzy_find") /\ ~ExactMatch /\ ~PatternCompiles(lower(value)) =>
        IF NearMisses = {} /\ options # << >>
        THEN ret = Raise("re.error")
        ELSE /\ Cardinality(NearMisses) = 1 => ReturnedOneOf(NearMisses)
             /\ Cardinality(NearMisses) # 1 => ret = ReturnNone

\* C2 as stated: the fallback matches whole words only, and
\* fuzzy_find("new", ["renew", "new feature"]) returns "new feature".
C2_FallbackExampleAsStated ==
    Called("fuzzy_find") /\ value = <<"n","e","w">> /\ options = <<<<"r","e",
                                                                     "n","e",
                                                                     "w">>, <<"n",
                                                                              "e",
                                                                              "w",
                                                                              " ",
                                                                              "f",
                                                                              "e",
                                                                              "a",
                                                                              "t",
                                                                              "u",
                                                                              "r",
                                                                              "e">>>>
        => ret = Return(<<"n","e","w"," ","f","e","a","t","u","r","e">>)

\* C2, amended: the whole-word fallback runs only when no option is a
\* near-miss of the value, so that a call with a near-miss returns None or a
\* near-miss; fuzzy_find("new", ["renew", "new feature"]) returns "renew", a
\* near-miss of "new"; and where the fallback runs, in
\* fuzzy_find("new", ["renewing", "new feature"]), it passes over "renewing",
\* which holds "new" without a word boundary, and returns "new feature".
C2_FallbackOnlyWithoutNearMiss ==
    Called("fuzzy_find") =>
        /\ (~ExactMatch /\ NearMisses # {}) => (ret = ReturnNone \/ ReturnedOneOf(NearMisses))
        /\ (value = <<"n","e","w">> /\ options = <<<<"r","e","n","e","w">>, <<"n",
                                                                              "e",
                                                                              "w",
                                                                              " ",
                                                                              "f",
                                                                              "e",
                                                                              "a",
                                                                              "t",
                                                                              "u",
                                                                              "r",
                                                                              "e">>>>)
              => ret = Return(<<"r","e","n","e","w">>)
        /\ (value = <<"n","e","w">> /\ options = <<<<"r","e","n","e","w","i",
                                                     "n","g">>, <<"n","e","w",
                                                                  " ","f","e",
                                                                  "a","t","u",
                                                                  "r","e">>>>)
              => /\ NearMisses = {}
                 /\ ~ContainsWord(<<"r","e","n","e","w","i","n","g">>, <<"n",
                                                                         "e",
                                                                         "w">>)
                 /\ ret = Return(<<"n","e","w"," ","f","e","a","t","u","r","e">>)

C2_Witness ==
    /\ Called("fuzzy_find")
    /\ value = <<"n","e","w">> /\ options = <<<<"r","e","n","e","w","i","n",
                                                "g">>, <<"n","e","w"," ","f",
                                                         "e","a","t","u","r",
                                                         "e">>>>
    /\ ret = Return(<<"n","e","w"," ","f","e","a","t","u","r","e">>)

\* C3: when some option equals the value case-insensitively, fuzzy_find
\* returns an option of the list, in its original casing, whose lowercase
\* form is the lowercased value, whatever the other options are;
\* fuzzy_find("Open", ["open", "closed"]) is "open".
C3_ExactMatchResolves ==
    Called("fuzzy_find") /\ ExactMatch =>
        /\ ReturnedOneOf({lower(value)})
        /\ (value = <<"O","p","e","n">> /\ options = <<<<"o","p","e","n">>, <<"c",
                                                                              "l",
                                                                              "o",
                                                                              "s",
                                                                              "e",
                                                                              "d">>>>) => ret = Return(<<"o",
                                                                                                         "p",
                                                                                                         "e",
                                                                                                         "n">>)

\* An exact match that differs in case, beside two options that are both
\* near-misses of the value.
C3_Witness ==
    /\ Called("fuzzy_find")
    /\ value = <<"c","l","o","s","e">> /\ options = <<<<"c","l","o","s","e",
                                                        "d">>, <<"r","e","n",
                                                                 "e","w">>, <<"C",
                                                                              "L",
                                                                              "O",
                                                                              "S",
                                                                              "E">>>>
    /\ ret = Return(<<"C","L","O","S","E">>)

(***************************************************************************)
(* What the claims about the extractors speak of: a page read by position, *)
(* without the matcher.                                                    *)
(***************************************************************************)
Starts(html, lit) == {p \in 1..Len(html) : StartsWithAt(html, p, lit)}

Contains(html, lit) == Starts(html, lit) # {}

\* The first position from p on that holds no character of S (past the end
\* when there is none).
SpanEnd(s, p, S) ==
    IF p > Len(s) THEN p
    ELSE First({e \in p..(Len(s) + 1) : e = Len(s) + 1 \/ s[e] \notin S})

\* The first position from p on that holds the character stop.
EndBefore(s, p, stop) ==
    IF p > Len(s) THEN p
    ELSE First({e \in p..(Len(s) + 1) : e = Len(s) + 1 \/ s[e] = stop})

RECURSIVE Ascending(_)
\* The positions of P, the least first.
Ascending(P) == IF P = {} THEN << >> ELSE <<First(P)>> \o Ascending(P \ {First(P)})

\* The text of the input element that starts at p, up to its closing ">".
Element(html, p) == SubSeq(html, p, EndBefore(html, p, ">") - 1)

\* The input elements of the page that are closed and hold only closed quotes.
InputElements(html) ==
    {p \in Starts(html, <<"<","i","n","p","u","t"," ">>) :
        /\ EndBefore(html, p, ">") <= Len(html)
        /\ ~Contains(Tail(Element(html, p)), <<"<">>)
        /\ Count(Element(html, p), "\"") % 2 = 0}

HasAttribute(elem, name, val) == Contains(elem, <<" ">> \o name \o <<"=","\"">> \o val \o <<"\"">>)

\* The value attribute of an element: the text between value=" and the next quote.
ValueAttribute(elem) ==
    LET at == Starts(elem, <<" ","v","a","l","u","e","=","\"">>)
    IN IF at = {} THEN << >>
       ELSE SubSeq(elem, First(at) + 8, EndBefore(elem, First(at) + 8, "\"") - 1)

\* The radio-button inputs named action that have a value, whatever the
\* order of their attributes.
RadioActionInputs(html) ==
    {p \in InputElements(html) :
        /\ HasAttribute(Element(html, p), <<"t","y","p","e">>, <<"r","a","d",
                                                                 "i","o">>)
        /\ HasAttribute(Element(html, p), <<"n","a","m","e">>, <<"a","c","t",
                                                                 "i","o","n">>)
        /\ ValueAttribute(Element(html, p)) # << >>}

\* The form fields named ts that have a value.
TsFields(html) ==
    {p \in InputElements(html) :
        /\ HasAttribute(Element(html, p), <<"n","a","m","e">>, <<"t","s">>)
        /\ ValueAttribute(Element(html, p)) # << >>}

\* C4 as stated: extract_statuses returns the value attributes of all the
\* radio-button inputs named action, in document order, one entry per
\* input; the empty sequence when there is none; it never raises.
C4_AllRadioActionInputsAsStated ==
    Called("extract_statuses") =>
        LET at == Ascending(RadioActionInputs(raw_html))
        IN ret = Return([i \in 1..Len(at) |-> ValueAttribute(Element(raw_html, at[i]))])

StatusesLead == <<"<","i","n","p","u","t"," ","t","y","p","e","=","\"","r",
                  "a","d","i","o","\""," ">>

StatusesTail == <<" ","n","a","m","e","=","\"","a","c","t","i","o","n","\"",
                  " ","v","a","l","u","e","=","\"">>

\* Where the text name="action" value=" may start for the input at p: after
\* at least one character that follows the lead, none of them a "<", and
\* before a value that is not empty.
StatusesTailStarts(html, p) ==
    {m \in (p + Len(StatusesLead) + 1)..Len(html) :
        /\ \A h \in (p + Len(StatusesLead))..(m - 1) : html[h] # "<"
        /\ StartsWithAt(html, m, StatusesTail)
        /\ m + Len(StatusesTail) <= Len(html)
        /\ html[m + Len(StatusesTail)] # "\""}

RECURSIVE StatusesFrom(_, _)
\* The entries from position from on: the first input in the layout, its
\* value read from the last such tail up to the next quote, then the rest.
StatusesFrom(html, from) ==
    LET P == {p \in Starts(html, StatusesLead) : p >= from /\ StatusesTailStarts(html, p) # {}}
    IN IF P = {} THEN << >>
       ELSE LET q == Last(StatusesTailStarts(html, First(P))) + Len(StatusesTail)
                e == EndBefore(html, q, "\"")
            IN <<SubSeq(html, q, e - 1)>> \o StatusesFrom(html, e)

\* C4, amended: extract_statuses returns, in document order, one entry per
\* input written as <input type="radio" , then at least one more character
\* and no "<", then  name="action" value=" and a value that is not empty:
\* the value up to the next double quote (or the end of the page).  A radio
\* input named action with nothing between its type and its name, with its
\* attributes in another order or with an empty value gives no entry.
\* Without such an input the result is the empty sequence; it never raises.
C4_InputsInTracLayout ==
    Called("extract_statuses") =>
        /\ ret = Return(StatusesFrom(raw_html, 1))
        /\ raw_html = <<"<","i","n","p","u","t"," ","t","y","p","e","=","\"",
                        "r","a","d","i","o","\""," ","n","a","m","e","=","\"",
                        "a","c","t","i","o","n","\""," ","v","a","l","u","e",
                        "=","\"","x","\"",">">> => ret = Return(<< >>)

C4_Witness ==
    /\ Called("extract_statuses")
    /\ Len(ret.val) = 2
    /\ ret.val[1] = <<"l","e","a","v","e">> /\ ret.val[2] = <<"r","e","s","o",
                                                              "l","v","e">>
    /\ Cardinality(RadioActionInputs(raw_html)) = 3

\* C6 as stated: extract_timestamp returns the value attribute of the form
\* field named ts whenever the page holds such a field and raises
\* FatalError whenever it holds none; it never returns None or "".
C6_TsFieldAsStated ==
    Called("extract_timestamp") =>
        /\ ret # ReturnNone
        /\ ret.kind = "return" => ret.val # << >>
        /\ IF TsFields(raw_html) # {}
           THEN ret = Return(ValueAttribute(Element(raw_html, First(TsFields(raw_html)))))
           ELSE ret = Raise("FatalError")

TsLead == <<"n","a","m","e","=","\"","t","s","\""," ","v","a","l","u","e","=",
            "\"">>

\* Where name="ts" value=" stands before a value that is not empty.
TsLeadStarts(html) ==
    {p \in Starts(html, TsLead) :
        p + Len(TsLead) <= Len(html) /\ html[p + Len(TsLead)] # "\""}

\* C6, amended: extract_timestamp returns the text that follows the first
\* name="ts" value=" that is followed by a character other than a double
\* quote, up to the next double quote (or the end of the page), and raises
\* FatalError when the page holds no such text, also when it holds a field
\* named ts with its attributes in another order or with an empty value;
\* it never returns None or "".
C6_TimestampAfterTsLead ==
    Called("extract_timestamp") =>
        /\ ret # ReturnNone
        /\ ret.kind = "return" => ret.val # << >>
        /\ IF TsLeadStarts(raw_html) # {}
           THEN LET q == First(TsLeadStarts(raw_html)) + Len(TsLead)
                IN ret = Return(SubSeq(raw_html, q, EndBefore(raw_html, q, "\"") - 1))
           ELSE ret = Raise("FatalError")
        /\ raw_html = <<"<","i","n","p","u","t"," ","n","a","m","e","=","\"",
                        "t","s","\""," ","v","a","l","u","e","=","\"","7",
                        "\"",">">> => ret = Return(<<"7">>)

\* A page with two ts fields in the layout, after one that has no value.
C6_Witness ==
    /\ Called("extract_timestamp")
    /\ Cardinality(TsFields(raw_html)) = 2
    /\ Cardinality(Starts(raw_html, TsLead)) = 3
    /\ ret = Return(<<"1","6","9","3","3","2","2","1">>)

PropLead == <<"v","a","r"," ","p","r","o","p","e","r","t","i","e","s","=">>

\* The ends of the JSON text of the assignment whose text starts at j: the
\* semicolons before which the text from j on is the JSON of a mapping.
MappingEnds(html, j) ==
    {e \in (j + 1)..Len(html) :
        /\ html[e] = ";"
        /\ json_loads(SubSeq(html, j, e - 1)).kind = "return"
        /\ json_loads(SubSeq(html, j, e - 1)).val.t = "object"}

\* C5: when the page holds an assignment var properties=<JSON>; the result
\* of extract_properties is the mapping the whole JSON text of the first
\* such assignment denotes ('var properties={"a":1};' gives {"a": 1});
\* without an assignment it is the empty mapping, and nothing is raised.
C5_WholeJsonOfFirstAssignment ==
    Called("extract_properties") =>
        /\ ~Contains(raw_html, PropLead) => ret = Return(JObject(<< >>))
        /\ Contains(raw_html, PropLead) =>
             LET j == First(Starts(raw_html, PropLead)) + Len(PropLead)
             IN \A e \in MappingEnds(raw_html, j) :
                    ret = json_loads(SubSeq(raw_html, j, e - 1))
        /\ raw_html = <<"v","a","r"," ","p","r","o","p","e","r","t","i","e",
                        "s","=","{","\"","a","\"",":","1","}",";">>
             => ret = Return(JObject(<<"a">> :> JNumber(1)))

\* What extract_properties does with C5's assignments: it reads the JSON
\* text of the first assignment up to the first semicolon only.
PropertiesReadUpToFirstSemicolon ==
    Called("extract_properties") /\ Contains(raw_html, PropLead) =>
        LET j == First({p + Len(PropLead) : p \in
                          {q \in Starts(raw_html, PropLead) :
                             q + Len(PropLead) <= Len(raw_html)
                               /\ raw_html[q + Len(PropLead)] # ";"}})
        IN ret = json_loads(SubSeq(raw_html, j, EndBefore(raw_html, j, ";") - 1))

(***************************************************************************)
(* C7: validate_id.                                                        *)
(***************************************************************************)
RECURSIVE Numeral(_)
\* str(n): the decimal numeral of an integer.
Numeral(n) ==
    IF n < 0 THEN <<"-">> \o Numeral(0 - n)
    ELSE IF n < 10 THEN <<DigitChars[n + 1]>>
    ELSE Numeral(n \div 10) \o <<DigitChars[(n % 10) + 1]>>

\* s is the numeral of an integer: digits without a leading zero, after a
\* minus sign or none.
IsNumeral(s) ==
    LET ds == IF s # << >> /\ Head(s) = "-" THEN Tail(s) ELSE s
    IN /\ ds # << >>
       /\ \A i \in 1..Len(ds) : ds[i] \in Range(DigitChars)
       /\ Len(ds) > 1 => ds[1] # "0"
       /\ Head(s) = "-" => ds # <<"0">>

\* C7: validate_id returns the integer form of an int or of a string that
\* converts to an integer (validate_id("42") = 42), whatever its size, and
\* raises InvalidParameter, and nothing else, for what does not convert: a
\* string that is not numeric, None, a value of another type.
C7_IntegerOrInvalidParameter ==
    Called("validate_id") =>
        /\ \/ ret.kind = "return" /\ ret.val \in Int
           \/ ret = Raise("InvalidParameter")
        /\ raw_value.t = "int" => ret = Return(raw_value.n)
        /\ raw_value.t = "str" =>
             /\ IsNumeral(raw_value.s) => ret.kind = "return" /\ Numeral(ret.val) = raw_value.s
             /\ (\E i \in 1..Len(raw_value.s) :
                    raw_value.s[i] \in Range(LowerLetters) \cup Range(UpperLetters))
                  => ret = Raise("InvalidParameter")
             /\ raw_value.s = << >> => ret = Raise("InvalidParameter")
        /\ raw_value.t \in {"NoneType", "list"} => ret = Raise("InvalidParameter")
        /\ raw_value = PyStr(<<"4","2">>) => ret = Return(42)
        /\ raw_value = PyStr(<<" ","-","0","4","2","\n">>) => ret = Return(0 - 42)
        /\ raw_value = PyStr(<<"a","b","c">>) => ret = Raise("InvalidParameter")

C7_Witness ==
    /\ Called("validate_id")
    /\ raw_value = PyStr(<<"-","4","2">>)
    /\ ret = Return(0 - 42)

(***************************************************************************)
(* C8: extract_trac_version.                                               *)
(***************************************************************************)
Digits == Range(DigitChars)

RECURSIVE Power10(_)
Power10(n) == IF n = 0 THEN 1 ELSE 10 * Power10(n - 1)

RECURSIVE PlaceValues(_, _)
\* The number a run of digits denotes: each digit times the power of ten of
\* its place, from digit i on.
PlaceValues(ds, i) ==
    IF i > Len(ds) THEN 0
    ELSE (IndexOf(DigitChars, ds[i]) - 1) * Power10(Len(ds) - i) + PlaceValues(ds, i + 1)

\* The ends of X, Y and Z for a Trac X.Y.Z that starts at p: <<x, y, z>>,
\* each the position after the run of digits.
VersionEnds(html, p) ==
    LET x == SpanEnd(html, p + 5, Digits)
        y == SpanEnd(html, x + 1, Digits)
        z == SpanEnd(html, y + 1, Digits)
    IN <<x, y, z>>

\* Trac X.Y.Z stands at p: three runs of digits, none empty, with dots between.
VersionAt(html, p) ==
    LET e == VersionEnds(html, p)
    IN /\ StartsWithAt(html, p, <<"T","r","a","c"," ">>)
       /\ e[1] > p + 5 /\ e[1] <= Len(html) /\ html[e[1]] = "."
       /\ e[2] > e[1] + 1 /\ e[2] <= Len(html) /\ html[e[2]] = "."
       /\ e[3] > e[2] + 1

Versions(html) == {p \in 1..Len(html) : VersionAt(html, p)}

\* C8: extract_trac_version returns the three numbers of the first Trac
\* X.Y.Z of the page as a triple of integers ("Powered by Trac 1.2.3" gives
\* (1, 2, 3)) whatever follows it; without a Trac X.Y.Z it returns the empty
\* sequence; it never raises.
C8_FirstVersionTriple ==
    Called("extract_trac_version") =>
        /\ IF Versions(raw_html) = {} THEN ret = Return(<< >>)
           ELSE LET p == First(Versions(raw_html))
                    e == VersionEnds(raw_html, p)
                IN ret = Return(<<PlaceValues(SubSeq(raw_html, p + 5, e[1] - 1), 1),
                                  PlaceValues(SubSeq(raw_html, e[1] + 1, e[2] - 1), 1),
                                  PlaceValues(SubSeq(raw_html, e[2] + 1, e[3] - 1), 1)>>)
        /\ raw_html = <<"P","o","w","e","r","e","d"," ","b","y"," ","T","r",
                        "a","c"," ","1",".","2",".","3">> => ret = Return(<<1, 2, 3>>)
        /\ raw_html = <<"n","o"," ","v","e","r","s","i","o","n"," ","h","e",
                        "r","e">> => ret = Return(<< >>)

\* A page with two versions: the second is ignored.
C8_Witness ==
    /\ Called("extract_trac_version")
    /\ Cardinality(Versions(raw_html)) = 2
    /\ ret = Return(<<0, 12, 5>>)
    /\ Contains(raw_html, <<"T","r","a","c"," ","1",".","2",".","3">>)

(***************************************************************************)
(* C9: extract_status_from_ticket_page, and the failure policy.            *)
(***************************************************************************)
TicketLead == <<"l","e","a","v","e","<","/","l","a","b","e","l",">">>

\* <<w, e>>: where the status word would start and end for a phrase at p.
TicketWord(html, p) ==
    LET a == SpanEnd(html, p + Len(TicketLead), SpaceChars)
        w == a + 3
    IN <<w, SpanEnd(html, w, WordChars)>>

\* The phrase stands at p: leave</label>, whitespace or none, "as ", a
\* word, whitespace or none, "<".
TicketPhraseAt(html, p) ==
    LET a == SpanEnd(html, p + Len(TicketLead), SpaceChars)
        we == TicketWord(html, p)
        t == SpanEnd(html, we[2], SpaceChars)
    IN /\ StartsWithAt(html, p, TicketLead)
       /\ StartsWithAt(html, a, <<"a","s"," ">>)
       /\ we[2] > we[1]
       /\ t <= Len(html) /\ html[t] = "<"

TicketPhrases(html) == {p \in 1..Len(html) : TicketPhraseAt(html, p)}

\* C9: extract_status_from_ticket_page returns the word of the phrase
\* "leave ... as <word>" when the page holds it and raises FatalError when
\* the pattern is not found; it never returns None or an empty word.  The
\* timestamp and current-status extractors fail where the statuses,
\* properties and version extractors return an empty result.
C9_StatusWordOrFatalError ==
    /\ Called("extract_status_from_ticket_page") =>
         /\ ret # ReturnNone
         /\ ret.kind = "return" => ret.val # << >>
         /\ IF TicketPhrases(raw_html) = {} THEN ret = Raise("FatalError")
            ELSE LET we == TicketWord(raw_html, First(TicketPhrases(raw_html)))
                 IN ret = Return(SubSeq(raw_html, we[1], we[2] - 1))
    /\ Called("extract_timestamp") /\ ~Contains(raw_html, <<"n","a","m","e",
                                                            "=","\"","t","s",
                                                            "\"">>)
         => ret = Raise("FatalError")
    /\ Called("extract_statuses") /\ ~Contains(raw_html, <<"t","y","p","e",
                                                           "=","\"","r","a",
                                                           "d","i","o","\"">>)
         => ret = Return(<< >>)
    /\ Called("extract_properties") /\ ~Contains(raw_html, <<"v","a","r"," ",
                                                             "p","r","o","p",
                                                             "e","r","t","i",
                                                             "e","s">>)
         => ret = Return(JObject(<< >>))
    /\ Called("extract_trac_version") /\ ~Contains(raw_html, <<"T","r","a",
                                                               "c"," ">>)
         => ret = Return(<< >>)

\* Two phrases on a page: the word of the first is the status.
C9_Witness ==
    /\ Called("extract_status_from_ticket_page")
    /\ Cardinality(TicketPhrases(raw_html)) = 2
    /\ ret = Return(<<"n","e","w">>)
    /\ Contains(raw_html, <<"a","s"," ","c","l","o","s","e","d">>)

(***************************************************************************)
(* C10: the shape of what the extractors return.                           *)
(***************************************************************************)
NonEmptyStrings(seq) == \A i \in 1..Len(seq) : seq[i] # << >>

ShapeExceptProperties ==
    /\ Called("extract_timestamp") => ret.kind = "raise" \/ (ret.kind = "return" /\ ret.val # << >>)
    /\ Called("extract_statuses") =>
         ret.kind = "raise" \/ (ret.kind = "return" /\ NonEmptyStrings(ret.val))
    /\ Called("extract_status_from_ticket_page") =>
         \/ ret.kind = "raise"
         \/ /\ ret.kind = "return" /\ ret.val # << >>
            /\ \A i \in 1..Len(ret.val) : ret.val[i] \in WordChars
    /\ Called("extract_trac_version") =>
         \/ ret.kind = "raise"
         \/ /\ ret.kind = "return"
            /\ Len(ret.val) \in {0, 3}
            /\ \A i \in 1..Len(ret.val) : ret.val[i] \in Nat

\* C10: every extractor fails or returns a value of its shape: a string
\* that is not empty from extract_timestamp, strings that are not empty from
\* extract_statuses, a word from extract_status_from_ticket_page, a mapping
\* (no list, number or string) from extract_properties, and no or three
\* integers from extract_trac_version.
C10_WellFormedOrFails ==
    /\ ShapeExceptProperties
    /\ Called("extract_properties") =>
         ret.kind = "raise" \/ (ret.kind = "return" /\ ret.val.t = "object")

=============================================================================
